---- MODULE Spec2Model ----
(***************************************************************************)
(* Schedule analysis of smart_planner: CalendarAgent.analyze_schedule      *)
(* (src/smart_planner/agents/calendar_agent.py).                           *)
(*                                                                         *)
(* Time is counted in minutes from midnight of target_date.  A datetime is *)
(* a record [t, aware, off]: t is the wall-clock minute, aware says        *)
(* whether the value carries a tzinfo, off is its UTC offset in minutes    *)
(* (0 for a naive value).                                                  *)
(***************************************************************************)
EXTENDS Integers, Sequences, FiniteSets, TLC

VARIABLES
    pc,            \* position inside analyze_schedule
    input,         \* the caller's own copy of the list it passes in
    events,        \* the list object passed in (the parameter `events`)
    tz_info,       \* tz_info (line 81)
    current_time,  \* current_time (line 86)
    free_slots,    \* free_slots (line 72)
    conflicts,     \* conflicts (line 73)
    k,             \* position of `for event in events` (line 89)
    i,             \* outer index of the conflict loop (line 126), 1-based
    j,             \* inner index of the conflict loop (line 127), 1-based
    result,        \* the CalendarSummaryOutput returned (line 148)
    run,           \* 1 during the first call, 2 during a second call
    mode,          \* what the second call was given
    first,         \* the summary returned by the first call
    added,         \* the event a second call was given on top of the first input
    cpc,           \* position inside combine_agent_outputs
    calendar_summary,  \* argument calendar_summary (main.py line 29)
    task_list,     \* argument task_list (line 30)
    context_info,  \* argument context_info (line 31)
    plan_items,    \* plan_items (line 45)
    sorted_tasks,  \* sorted_tasks (line 71)
    time_idx,      \* time_idx (line 76)
    ce,            \* position of `for event in calendar_summary.events` (line 51)
    cr,            \* position of `for rec in context_info.recommendations` (line 94)
    final_plan,    \* the ConsolidatedDailyPlanOutput object (line 113)
    target_date_str,   \* argument target_date_str of run_planner (line 126)
    target_date,   \* target_date (main.py line 28 and line 140)
    today,         \* what date.today() returns (line 81)
    first_plan,    \* the plan an earlier call of combine_agent_outputs returned
    rpc,           \* position inside run_planner
    upstream,      \* what each agent did when run_planner invoked it
    returned,      \* what run_planner returned
    final_plan_json,   \* final_plan_json (line 252)
    parsed_plan    \* the plan object built from final_plan_json

planvars == <<cpc, calendar_summary, task_list, context_info, plan_items,
              sorted_tasks, time_idx, ce, cr, final_plan>>

callvars == <<target_date_str, target_date, today, first_plan, rpc, upstream,
              returned, final_plan_json, parsed_plan>>

vars == <<pc, input, events, tz_info, current_time, free_slots, conflicts,
          k, i, j, result, run, mode, first, added, planvars, callvars>>

(***************************************************************************)
(* Bounds of the model and constants of the program.                       *)
(***************************************************************************)
MaxEvents == 3

DayStartMinute == 540
DayEndMinute == 1020
MinFreeMinutes == 15

(***************************************************************************)
(* datetime values and the operations the code applies to them.            *)
(***************************************************************************)
Naive(m) == [t |-> m, aware |-> FALSE, off |-> 0]
Aware(m, o) == [t |-> m, aware |-> TRUE, off |-> o]

\* The instant a datetime compares by: UTC for an aware value, the wall
\* clock for a naive one.
Instant(d) == d.t - d.off

\* Ordering (<, >, max, min) a naive datetime with an aware one raises
\* TypeError.
Comparable(a, b) == a.aware = b.aware
DtLess(a, b) == Instant(a) < Instant(b)
\* == never raises: a naive value is unequal to every aware one.
DtEq(a, b) == a.aware = b.aware /\ Instant(a) = Instant(b)

\* Python's max(a, b) and min(a, b): the first argument unless the second
\* is strictly greater (smaller).
PyMax(a, b) == IF DtLess(a, b) THEN b ELSE a
PyMin(a, b) == IF DtLess(b, a) THEN b ELSE a

\* d.astimezone(tz) keeps the instant; d.replace(tzinfo=tz) keeps the wall
\* clock.
AsTimezone(d, o) == Aware(d.t - d.off + o, o)
ReplaceTzinfo(d, o) == Aware(d.t, o)

\* timedelta b - a in minutes.
Minutes(a, b) == Instant(b) - Instant(a)

\* strftime('%H:%M')
HourMinute(d) == <<(d.t \div 60) % 24, d.t % 60>>

NoTz == [set |-> FALSE, off |-> 0]
Combine(m, tz) == IF tz.set THEN Aware(m, tz.off) ELSE Naive(m)

(***************************************************************************)
(* CalendarEvent values.                                                   *)
(***************************************************************************)
Event(s, e, name) == [start_time |-> s, end_time |-> e, summary |-> name]

\* BaseModel.__eq__: field by field.
EventEq(a, b) ==
    /\ DtEq(a.start_time, b.start_time)
    /\ DtEq(a.end_time, b.end_time)
    /\ a.summary = b.summary

Front(s) == SubSeq(s, 1, Len(s) - 1)
Last(s) == s[Len(s)]

\* events.sort(key=lambda x: x.start_time): a stable sort, an element goes
\* after every element whose start is not later than its own.
RECURSIVE InsertByStartUnstable(_, _)
InsertByStartUnstable(s, e) ==
    IF s = <<>> \/ DtLess(Last(s).start_time, e.start_time)
    THEN Append(s, e)
    ELSE Append(InsertByStartUnstable(Front(s), e), Last(s))

RECURSIVE InsertByStart(_, _)
InsertByStart(s, e) ==
    IF s = <<>> \/ ~DtLess(e.start_time, Last(s).start_time)
    THEN Append(s, e)
    ELSE Append(InsertByStart(Front(s), e), Last(s))

SortByStartSkipped(s) == s

RECURSIVE SortByStart(_)
SortByStart(s) ==
    IF s = <<>> THEN <<>> ELSE InsertByStart(SortByStart(Front(s)), Last(s))

\* The sort compares start times of two elements: mixed naive and aware
\* start times raise TypeError.
SortRaises(s) ==
    \E a, b \in 1..Len(s) : ~Comparable(s[a].start_time, s[b].start_time)

Reorderings(s) ==
    { p \in [1..Len(s) -> {s[q] : q \in 1..Len(s)}] :
        \E f \in [1..Len(s) -> 1..Len(s)] :
            /\ \A a, b \in 1..Len(s) : a # b => f[a] # f[b]
            /\ \A a \in 1..Len(s) : p[a] = s[f[a]] }

\* tz_info = events[0].start_time.tzinfo if events and ... else None
TzInfoOf(s) ==
    IF s # <<>> /\ s[1].start_time.aware
    THEN [set |-> TRUE, off |-> s[1].start_time.off]
    ELSE NoTz

day_start_time == Combine(DayStartMinute, tz_info)
day_end_time == Combine(DayEndMinute, tz_info)

(***************************************************************************)
(* The free-slot sweep, lines 89-123.                                      *)
(***************************************************************************)
\* lines 91-96
ToZone(d, tz) ==
    IF tz.set
    THEN IF d.aware THEN AsTimezone(d, tz.off) ELSE ReplaceTzinfo(d, tz.off)
    ELSE d

\* lines 100-101
ClampedStart(e, tz) == PyMax(ToZone(e.start_time, tz), Combine(DayStartMinute, tz))
ClampedEnd(e, tz) == PyMin(ToZone(e.end_time, tz), Combine(DayEndMinute, tz))

ClampRaises(e, tz) ==
    \/ ~Comparable(ToZone(e.start_time, tz), Combine(DayStartMinute, tz))
    \/ ~Comparable(ToZone(e.end_time, tz), Combine(DayEndMinute, tz))

\* line 104
InWorkingHours(e, tz) == DtLess(ClampedStart(e, tz), ClampedEnd(e, tz))

\* lines 107 and 118
LongEnoughNoMinimum(d) == d > 0
LongEnoughStrictly(d) == d > MinFreeMinutes
LongEnough(d) == d >= MinFreeMinutes

FreeTimeSlotWithoutDuration(s, e) ==
    [start_time |-> s, end_time |-> e, duration_minutes |-> 0]
FreeTimeSlot(s, e) ==
    [start_time |-> s, end_time |-> e, duration_minutes |-> Minutes(s, e)]

\* lines 105-112 and 116-123: the slots once the gap from the cursor to s
\* has been looked at
SlotsBefore(slots, cur, s) ==
    IF DtLess(cur, s) /\ LongEnough(Minutes(cur, s))
    THEN Append(slots, FreeTimeSlot(cur, s))
    ELSE slots

\* line 86
StartOfSweepAtMidnight(tz) == Combine(0, tz)
StartOfSweep(tz) == Combine(DayStartMinute, tz)

\* line 113
AdvanceToEnd(cur, e) == e
Advance(cur, e) == PyMax(cur, e)

(***************************************************************************)
(* Conflict detection, lines 126-145.                                      *)
(***************************************************************************)
\* line 131
OverlapOrTouch(e1, e2) ==
    ~DtLess(PyMin(e1.end_time, e2.end_time), PyMax(e1.start_time, e2.start_time))

Overlap(e1, e2) ==
    DtLess(PyMax(e1.start_time, e2.start_time), PyMin(e1.end_time, e2.end_time))

OverlapRaises(e1, e2) ==
    \/ ~Comparable(e1.start_time, e2.start_time)
    \/ ~Comparable(e1.end_time, e2.end_time)
    \/ ~Comparable(PyMax(e1.start_time, e2.start_time),
                   PyMin(e1.end_time, e2.end_time))

\* `event in existing_conflict.conflicting_events`
InConflict(e, c) ==
    \E q \in 1..Len(c.conflicting_events) : EventEq(e, c.conflicting_events[q])

\* lines 132-138
ConflictExistsNever(e1, e2, cs) == FALSE
ConflictExists(e1, e2, cs) ==
    \E q \in 1..Len(cs) : InConflict(e1, cs[q]) /\ InConflict(e2, cs[q])

\* lines 140-144
CalendarConflict(e1, e2) ==
    [conflicting_events |-> <<e1, e2>>,
     details |-> <<e1.summary, HourMinute(e1.start_time), HourMinute(e1.end_time),
                   e2.summary, HourMinute(e2.start_time), HourMinute(e2.end_time)>>]

\* The pair after (a, b) in `for i in range(n): for j in range(i+1, n)`.
NextPair(a, b, n) == IF b < n THEN <<a, b + 1>> ELSE <<a + 1, a + 2>>

(***************************************************************************)
(* The summary returned.                                                   *)
(***************************************************************************)
NoSummary ==
    [returned |-> FALSE, events |-> <<>>, free_slots |-> <<>>, conflicts |-> <<>>]

CalendarSummaryOutput(ev, slots, cs) ==
    [returned |-> TRUE, summary_date |-> target_date, events |-> ev,
     free_slots |-> slots, conflicts |-> cs]

(***************************************************************************)
(* Event lists the caller passes in.                                       *)
(***************************************************************************)
\* Naive events around the window: starts before it, 15 minutes into it and
\* 14 or 15 minutes after an end; ends that leave 14 minutes to the window
\* end or lie after it; among them events with start >= end, one event
\* before the window, one after it, and two that differ in the summary only.
StartMinutes == {480, 555, 570}
EndMinutes == {555, 556, 1006, 1080}

NaiveEvents ==
    { Event(Naive(s), Naive(e), "A") : s \in StartMinutes, e \in EndMinutes }
        \cup { Event(Naive(480), Naive(540), "A"),
               Event(Naive(1050), Naive(1080), "A"),
               Event(Naive(480), Naive(1080), "B") }

\* Events whose start or end carries an offset (UTC or UTC+1) or none.
ZoneStarts == { Naive(555), Aware(555, 0), Aware(615, 60), Aware(570, 0) }
ZoneEnds == { Naive(1005), Aware(1005, 0), Aware(1065, 60) }
ZoneEvents == { Event(s, e, "A") : s \in ZoneStarts, e \in ZoneEnds }

\* Events for two calls in a row.
TwiceEvents ==
    { Event(Naive(s), Naive(e), "A") : s \in StartMinutes, e \in {555, 1006} }
        \cup { Event(Naive(555), Naive(556), "A"),
               Event(Naive(480), Naive(1006), "B") }

Lists(U, n) == UNION { [1..m -> U] : m \in 0..n }

\* Events with start >= end, given to a second call on top of the first
\* input.
BackwardEvents ==
    { Event(Naive(555), Naive(555), "A"),
      Event(Naive(570), Naive(555), "A"),
      Event(Naive(1080), Naive(480), "A"),
      Event(Aware(570, 60), Aware(555, 60), "A"),
      Event(Aware(1080, 0), Aware(480, 0), "A") }

NoEvent == Event(Naive(0), Naive(0), "")

\* The scenario events: A 09:00-10:00, B 09:30-10:30, C 13:00-14:00.
ScenarioA == Event(Naive(540), Naive(600), "A")
ScenarioB == Event(Naive(570), Naive(630), "B")
ScenarioC == Event(Naive(780), Naive(840), "C")
ScenarioEvents == {ScenarioA, ScenarioB, ScenarioC}

(***************************************************************************)
(* combine_agent_outputs (src/smart_planner/main.py) and the models it     *)
(* reads and builds (src/smart_planner/models/schemas.py).                 *)
(***************************************************************************)
MaxItems == 2
MaxPlanItems == 4
ManyTasks == 1441
WrapTasks == 484
ShortOfWrap == 40

\* Python's None for an Optional argument or field.  An absent
\* calendar_summary is NoSummary.
None == [none |-> TRUE]
IsNone(x) == x = None \/ x = NoSummary

\* `if calendar_summary:`, `if task_list:`, `if context_info:`,
\* `if rec.impact_time`: a model object or a datetime is true, None is false.
TruthyAlways(x) == TRUE
Truthy(x) == ~IsNone(x)

\* datetime.time(): the wall clock of the value, tzinfo dropped.
MinutesPerDay == 1440
TimeOfDay(d) == d.t % MinutesPerDay

\* A value that is neither a datetime nor None, assigned to a field after
\* its model was built (assignments are not validated).
Foreign == [foreign |-> TRUE]

\* d.time() raises AttributeError unless d is a datetime.
TimeRaises(d) == "t" \notin DOMAIN d

EmailTask(d, p) == [description |-> d, priority |-> p]
PrioritizedTaskListOutput(ts) == [tasks |-> ts]
ContextRecommendation(impact) ==
    [type |-> "general", details |-> "r", impact_time |-> impact]
ContextOutput(rs) == [recommendations |-> rs]

\* Literal['low', 'medium', 'high', 'urgent']
Priorities == {"low", "medium", "high", "urgent"}

PlanItem(t, kind, d, p) ==
    [time |-> t, item_type |-> kind, details |-> d, priority |-> p]

\* PlanItem.priority when it is None.
NoPriority == "None"

\* PlanItem(priority=p) is rejected unless p is None or one of Priorities.
PlanItemRaises(p) == p \notin Priorities \cup {NoPriority}

\* priority_order.get(t.priority, 99)
PriorityRank(p) ==
    CASE p = "urgent" -> 0
      [] p = "high" -> 1
      [] p = "medium" -> 2
      [] p = "low" -> 3
      [] OTHER -> 99

\* sorted(task_list.tasks, key=...): stable.
SortByPriority(ts) ==
    SortSeq(ts, LAMBDA x, y : PriorityRank(x.priority) < PriorityRank(y.priority))

\* task_times = [time(9, 0), time(11, 0), time(14, 0), time(16, 0)]
task_times == <<540, 660, 840, 960>>

\* lines 79-81: the slot of the rotation on date.today() plus time_idx
\* minutes, as a time of day.
AssignedTimeWithDate(idx) ==
    (today - target_date) * MinutesPerDay
        + task_times[(idx % Len(task_times)) + 1] + idx
AssignedTimeByCycle(idx) ==
    TimeOfDay(Naive((today - target_date) * MinutesPerDay
                    + task_times[(idx % Len(task_times)) + 1]
                    + (idx \div Len(task_times))))
AssignedTime(idx) ==
    TimeOfDay(Naive((today - target_date) * MinutesPerDay
                    + task_times[(idx % Len(task_times)) + 1] + idx))

\* line 55
EventTimeOfEnd(event) == TimeOfDay(event.end_time)
EventTime(event) == TimeOfDay(event.start_time)

\* line 97
DefaultRecMinute == 420
RecTimeMidnight(rec) ==
    IF Truthy(rec.impact_time) THEN TimeOfDay(rec.impact_time) ELSE 0
RecTime(rec) ==
    IF Truthy(rec.impact_time) THEN TimeOfDay(rec.impact_time) ELSE DefaultRecMinute

\* sorted(items, key=lambda item: item.time) and list.sort with the same
\* key: stable.
SortByTimeThenKind(items) ==
    SortSeq(items, LAMBDA x, y :
        \/ x.time < y.time
        \/ /\ x.time = y.time
           /\ x.item_type = "recommendation"
           /\ y.item_type # "recommendation")
SortByTimeSkipped(items) == items
SortByTime(items) == SortSeq(items, LAMBDA x, y : x.time < y.time)

\* The validator of ConsolidatedDailyPlanOutput.plan, run when the object
\* is constructed.
sort_plan_by_time(v) == SortByTime(v)

NoPlan == [built |-> FALSE, date |-> 0, plan |-> <<>>,
           summary |-> [date |-> 0, events |-> 0, tasks |-> 0,
                        recommendations |-> 0]]

\* lines 113-120: the summary is "Plan for <date>. Events: <n>. Tasks: <n>.
\* Recommendations: <n>.", kept as the four values it is formatted from.
ConsolidatedDailyPlanOutputCountingItems(plan, cs, tl, ci) ==
    [built |-> TRUE,
     date |-> target_date,
     plan |-> sort_plan_by_time(plan),
     summary |-> [date |-> target_date,
                  events |-> Len(SelectSeq(plan, LAMBDA it : it.item_type = "event")),
                  tasks |-> Len(SelectSeq(plan, LAMBDA it : it.item_type = "task")),
                  recommendations |->
                      Len(SelectSeq(plan, LAMBDA it : it.item_type = "recommendation"))]]
ConsolidatedDailyPlanOutput(plan, cs, tl, ci) ==
    [built |-> TRUE,
     date |-> target_date,
     plan |-> sort_plan_by_time(plan),
     summary |-> [date |-> target_date,
                  events |-> IF Truthy(cs) THEN Len(cs.events) ELSE 0,
                  tasks |-> IF Truthy(tl) THEN Len(tl.tasks) ELSE 0,
                  recommendations |->
                      IF Truthy(ci) THEN Len(ci.recommendations) ELSE 0]]

(***************************************************************************)
(* The JSON form of a plan: model_dump_json (main.py line 252) and the     *)
(* validation of that text against the models of schemas.py.  A JSON       *)
(* string that holds a date or a time is kept as the sequence of the       *)
(* numbers written in it, null as the empty sequence.                      *)
(***************************************************************************)
NoJson == [written |-> FALSE]

\* isoformat of a datetime: the wall clock, and the offset when aware.
DumpDatetimeNaive(d) == <<d.t>>
DumpDatetime(d) == IF d.aware THEN <<d.t, d.off>> ELSE <<d.t>>
\* datetime.fromisoformat in CalendarEvent.parse_datetime, and pydantic's
\* own parsing of impact_time.
ParseDatetime(js) == IF Len(js) = 2 THEN Aware(js[1], js[2]) ELSE Naive(js[1])

DumpOptionalDatetime(d) == IF IsNone(d) THEN <<>> ELSE DumpDatetime(d)
ParseOptionalDatetime(js) == IF js = <<>> THEN None ELSE ParseDatetime(js)

\* "HH:MM:00" of a time of day.
DumpTime(t) == <<t \div 60, t % 60>>
ParseTime(js) == js[1] * 60 + js[2]

\* "YYYY-MM-DD" of a date.
DumpDate(d) == <<d>>
ParseDate(js) == js[1]

\* null for None, the literal otherwise.
DumpPriority(p) == IF p = NoPriority THEN "null" ELSE p
ParsePriority(js) == IF js = "null" THEN NoPriority ELSE js

\* The class of a model object, told by its fields.
IsCalendarEvent(d) == "start_time" \in DOMAIN d
IsEmailTask(d) == "description" \in DOMAIN d

DumpEvent(e) ==
    [start_time |-> DumpDatetime(e.start_time),
     end_time |-> DumpDatetime(e.end_time),
     summary |-> e.summary]
DumpTask(t) == [description |-> t.description, priority |-> t.priority]
DumpRec(r) ==
    [type |-> r.type, details |-> r.details,
     impact_time |-> DumpOptionalDatetime(r.impact_time)]

\* A Union field is written as the object it holds.
DumpDetails(d) ==
    IF IsCalendarEvent(d) THEN DumpEvent(d)
    ELSE IF IsEmailTask(d) THEN DumpTask(d)
    ELSE DumpRec(d)

\* Union['CalendarEvent', 'EmailTask', 'ContextRecommendation', str]: the
\* member whose required fields the JSON object has.
ParseDetails(js) ==
    IF {"start_time", "end_time", "summary"} \subseteq DOMAIN js
    THEN Event(ParseDatetime(js.start_time), ParseDatetime(js.end_time), js.summary)
    ELSE IF {"description", "priority"} \subseteq DOMAIN js
    THEN EmailTask(js.description, js.priority)
    ELSE [type |-> js.type, details |-> js.details,
          impact_time |-> ParseOptionalDatetime(js.impact_time)]

DumpItem(it) ==
    [time |-> DumpTime(it.time), item_type |-> it.item_type,
     details |-> DumpDetails(it.details), priority |-> DumpPriority(it.priority)]
ParseItem(js) ==
    PlanItem(ParseTime(js.time), js.item_type, ParseDetails(js.details),
             ParsePriority(js.priority))

model_dump_json(p) ==
    [written |-> TRUE,
     date |-> DumpDate(p.date),
     plan |-> [q \in 1..Len(p.plan) |-> DumpItem(p.plan[q])],
     summary |-> p.summary]

\* The object is constructed from the parsed fields, so the validator of
\* plan runs.
model_validate_json(js) ==
    [built |-> TRUE,
     date |-> ParseDate(js.date),
     plan |-> sort_plan_by_time([q \in 1..Len(js.plan) |-> ParseItem(js.plan[q])]),
     summary |-> js.summary]

\* Calendar events of three zones' wall clocks: B starts before A but shows
\* a later time of day; C overlaps neither.
PlanEventA == Event(Aware(600, 0), Aware(660, 0), "A")
PlanEventB == Event(Aware(630, 60), Aware(690, 60), "B")
PlanEventC == Event(Aware(720, 0), Aware(780, 0), "C")
PlanEvents == {PlanEventA, PlanEventB, PlanEventC}

\* Tasks as EmailTask validates them.
PlanTasks ==
    { EmailTask("u", "urgent"), EmailTask("h1", "high"), EmailTask("h2", "high"),
      EmailTask("m", "medium"), EmailTask("l", "low") }

\* A task whose priority was assigned after construction (assignments are
\* not validated).
UnknownPriorityTask == EmailTask("x", "someday")
AnyTasks == PlanTasks \cup {UnknownPriorityTask}

PlanRecs == { ContextRecommendation(None), ContextRecommendation(Naive(400)) }

\* Inputs whose plan items share a time of day: 09:00 and 11:01 are the
\* times of the first two tasks.
TieEvents ==
    { Event(Aware(540, 0), Aware(600, 0), "A"),
      Event(Aware(540, 60), Aware(600, 60), "B"),
      Event(Aware(661, 0), Aware(720, 0), "C") }
TieTasks == { EmailTask("u", "urgent"), EmailTask("h1", "high") }
TieRecs ==
    { ContextRecommendation(Naive(540)), ContextRecommendation(Aware(540, 0)),
      ContextRecommendation(Naive(661)) }

\* Inputs of combine_agent_outputs some of which cannot be turned into a
\* PlanItem: an event whose start_time became None, a task whose priority is
\* no Literal of PlanItem, a recommendation whose impact_time is no
\* datetime.
MalformedEvent == Event(None, None, "bad")
MalformedRec == ContextRecommendation(Foreign)
SomeEvents == {PlanEventA, PlanEventC, MalformedEvent}
SomeTasks == {EmailTask("u", "urgent"), EmailTask("h1", "high"), UnknownPriorityTask}
SomeRecs == {ContextRecommendation(None), MalformedRec}

\* A summary as a caller of combine_agent_outputs holds it.
OptionalSummaries(U, n) ==
    {NoSummary} \cup { CalendarSummaryOutput(ev, <<>>, <<>>) : ev \in Lists(U, n) }

OptionalTaskLists(U, n) ==
    {None} \cup { PrioritizedTaskListOutput(ts) : ts \in Lists(U, n) }
OptionalContexts(U, n) ==
    {None} \cup { ContextOutput(rs) : rs \in Lists(U, n) }

\* A list of n tasks.
TaskListOf(n) ==
    PrioritizedTaskListOutput([q \in 1..n |-> EmailTask("t", "medium")])

\* A list of n different tasks, the last of them the only urgent one.
NumberedTasks(n) ==
    PrioritizedTaskListOutput(
        [q \in 1..n |-> EmailTask(q, IF q = n THEN "urgent" ELSE "medium")])

\* Items a holder of the plan object puts into it.
MutationItems ==
    { PlanItem(360, "event", Event(Naive(360), Naive(420), "early"), NoPriority),
      PlanItem(1080, "event", Event(Naive(1080), Naive(1140), "late"), NoPriority) }

\* combine_agent_outputs has not been called.
PlanNotStarted ==
    /\ cpc = "idle"
    /\ calendar_summary = NoSummary
    /\ plan_items = <<>>
    /\ sorted_tasks = <<>>
    /\ time_idx = 0
    /\ ce = 1
    /\ cr = 1
    /\ final_plan = NoPlan

\* No call of combine_agent_outputs is to come.
PlanIdle ==
    /\ PlanNotStarted
    /\ task_list = None
    /\ context_info = None

\* A target_date_str that date.fromisoformat accepts, and one it rejects.
DateStr(d) == [iso |-> TRUE, date |-> d]
BadDateStr == [iso |-> FALSE, date |-> 0]

\* What run_planner's agents did: nothing yet.
NotInvoked == [calendar |-> "none", email |-> "none", context |-> "none"]

\* run_planner is not running: analyze_schedule and combine_agent_outputs
\* are called directly, for the date the model counts its minutes from, on
\* that date.
CallIdle ==
    /\ target_date_str = DateStr(0)
    /\ target_date = 0
    /\ today = 0
    /\ first_plan = NoPlan
    /\ rpc = "unused"
    /\ upstream = NotInvoked
    /\ returned = "pending"
    /\ final_plan_json = NoJson
    /\ parsed_plan = NoPlan

(***************************************************************************)
(* The state machine.                                                      *)
(***************************************************************************)
InitSchedule(lists) ==
    /\ CallIdle
    /\ input \in lists
    /\ events = input
    /\ pc = "call"
    /\ tz_info = NoTz
    /\ current_time = Naive(0)
    /\ free_slots = <<>>
    /\ conflicts = <<>>
    /\ k = 1
    /\ i = 1
    /\ j = 2
    /\ result = NoSummary
    /\ run = 1
    /\ mode = "first"
    /\ first = NoSummary
    /\ added = NoEvent

InitWith(lists) == InitSchedule(lists) /\ PlanIdle

\* analyze_schedule is about to be called, combine_agent_outputs after it
\* with one of the task lists tls and one of the contexts cis.
InitPlanWith(lists, tls, cis) ==
    /\ InitSchedule(lists)
    /\ PlanNotStarted
    /\ task_list \in tls
    /\ context_info \in cis

Init == InitWith(Lists(NaiveEvents, MaxEvents))
InitZone == InitWith(Lists(ZoneEvents, MaxEvents))
InitTwice == InitWith(Lists(TwiceEvents, MaxEvents))
InitScenario == InitWith(Lists(ScenarioEvents, MaxEvents))
InitPlan ==
    InitPlanWith(Lists(PlanEvents, MaxItems),
                 OptionalTaskLists(PlanTasks, MaxItems),
                 OptionalContexts(PlanRecs, MaxItems))
InitPlanAnyPriority ==
    InitPlanWith(Lists(PlanEvents, MaxItems),
                 OptionalTaskLists(AnyTasks, MaxItems),
                 OptionalContexts(PlanRecs, MaxItems))
InitPlanObject ==
    InitPlanWith(Lists({PlanEventA, PlanEventC}, MaxItems),
                 OptionalTaskLists({EmailTask("u", "urgent")}, 1),
                 OptionalContexts({ContextRecommendation(None)}, 1))
\* combine_agent_outputs is called at once with arguments of the caller's
\* making.
InitCombineWith(css, tls, cis) ==
    /\ InitSchedule({<<>>})
    /\ cpc = "events"
    /\ calendar_summary \in css
    /\ task_list \in tls
    /\ context_info \in cis
    /\ plan_items = <<>>
    /\ sorted_tasks = <<>>
    /\ time_idx = 0
    /\ ce = 1
    /\ cr = 1
    /\ final_plan = NoPlan

InitMalformed ==
    InitCombineWith(OptionalSummaries(SomeEvents, MaxItems),
                    OptionalTaskLists(SomeTasks, MaxItems),
                    OptionalContexts(SomeRecs, MaxItems))

\* combine_agent_outputs(target_date, None, task_list, None) at line 77,
\* for task lists long enough for an assigned time to pass midnight.
InitWrapTasks ==
    /\ InitSchedule({<<>>})
    /\ cpc = "tasks"
    /\ calendar_summary = NoSummary
    /\ context_info = None
    /\ task_list \in { NumberedTasks(n) : n \in (WrapTasks - ShortOfWrap)..WrapTasks }
    /\ sorted_tasks = SortByPriority(task_list.tasks)
    /\ plan_items = <<>>
    /\ time_idx = 0
    /\ ce = 1
    /\ cr = 1
    /\ final_plan = NoPlan

\* Days on which a later call is made, counted from the day of the first.
LaterDays == {0, 1, 2}

InitAgain ==
    InitCombineWith(OptionalSummaries({PlanEventA, PlanEventC}, MaxItems),
                    OptionalTaskLists(TieTasks, MaxItems),
                    OptionalContexts(PlanRecs, MaxItems))

\* Events with and without tzinfo, recommendations with and without
\* impact_time.
RoundTripEvents == {PlanEventA, PlanEventB, Event(Naive(600), Naive(660), "N")}
RoundTripRecs ==
    { ContextRecommendation(None), ContextRecommendation(Naive(400)),
      ContextRecommendation(Aware(400, 60)) }

InitRoundTrip ==
    InitCombineWith(OptionalSummaries(RoundTripEvents, MaxItems),
                    OptionalTaskLists(TieTasks, MaxItems),
                    OptionalContexts(RoundTripRecs, MaxItems))

\* run_planner is called on day 1 for that day or the day before, or with
\* a string that is no date.  The calendar tool may deliver events with and
\* without tzinfo; EmailAgent and ContextAgent deliver validated models.
TargetDates == {0, 1}
RunEvents == {PlanEventA, PlanEventC, Event(Naive(600), Naive(660), "N")}
RunTasks == {EmailTask("u", "urgent")}
RunRecs == {ContextRecommendation(None)}

InitRun ==
    /\ target_date_str \in { DateStr(d) : d \in TargetDates } \cup {BadDateStr}
    /\ target_date = 0
    /\ today = 1
    /\ first_plan = NoPlan
    /\ rpc = "start"
    /\ upstream = NotInvoked
    /\ returned = "pending"
    /\ final_plan_json = NoJson
    /\ parsed_plan = NoPlan
    /\ pc = "idle"
    /\ input = <<>>
    /\ events = <<>>
    /\ tz_info = NoTz
    /\ current_time = Naive(0)
    /\ free_slots = <<>>
    /\ conflicts = <<>>
    /\ k = 1
    /\ i = 1
    /\ j = 2
    /\ result = NoSummary
    /\ run = 1
    /\ mode = "first"
    /\ first = NoSummary
    /\ added = NoEvent
    /\ PlanIdle

InitTies ==
    InitPlanWith(Lists(TieEvents, MaxItems),
                 OptionalTaskLists(TieTasks, MaxItems),
                 OptionalContexts(TieRecs, MaxItems))
\* combine_agent_outputs(None, task_list, None) at line 77, for every
\* length of task_list up to ManyTasks.
InitManyTasks ==
    /\ InitSchedule({<<>>})
    /\ cpc = "tasks"
    /\ calendar_summary = NoSummary
    /\ context_info = None
    /\ task_list \in { TaskListOf(n) : n \in 0..ManyTasks }
    /\ sorted_tasks = SortByPriority(task_list.tasks)
    /\ plan_items = <<>>
    /\ time_idx = 0
    /\ ce = 1
    /\ cr = 1
    /\ final_plan = NoPlan

\* lines 71-86: sort the list passed in, fix the window, start the cursor.
\* A sort that raises leaves the list in an unspecified order.
Call ==
    /\ pc = "call"
    /\ IF SortRaises(events)
       THEN /\ events' \in Reorderings(events)
            /\ pc' = "raised"
            /\ UNCHANGED <<tz_info, current_time>>
       ELSE /\ events' = SortByStart(events)
            /\ tz_info' = TzInfoOf(events')
            /\ current_time' = StartOfSweep(tz_info')
            /\ pc' = "sweep"
    /\ free_slots' = <<>>
    /\ conflicts' = <<>>
    /\ k' = 1
    /\ UNCHANGED <<input, i, j, result, run, mode, first, added>>
    /\ UNCHANGED planvars
    /\ UNCHANGED callvars

\* lines 89-113: one iteration of `for event in events`.
SweepEvent ==
    /\ pc = "sweep"
    /\ k <= Len(events)
    /\ LET event == events[k]
       IN  IF ClampRaises(event, tz_info)
           THEN /\ pc' = "raised"
                /\ UNCHANGED <<free_slots, current_time, k>>
           ELSE /\ IF InWorkingHours(event, tz_info)
                   THEN /\ free_slots' =
                              SlotsBefore(free_slots, current_time,
                                          ClampedStart(event, tz_info))
                        /\ current_time' =
                              Advance(current_time, ClampedEnd(event, tz_info))
                   ELSE UNCHANGED <<free_slots, current_time>>
                /\ k' = k + 1
                /\ pc' = "sweep"
    /\ UNCHANGED <<input, events, tz_info, conflicts, i, j, result, run, mode, first, added>>
    /\ UNCHANGED planvars
    /\ UNCHANGED callvars

\* lines 116-123: the slot after the last event.
TrailingSlot ==
    /\ pc = "sweep"
    /\ k > Len(events)
    /\ free_slots' = SlotsBefore(free_slots, current_time, day_end_time)
    /\ pc' = "conflicts"
    /\ i' = 1
    /\ j' = 2
    /\ UNCHANGED <<input, events, tz_info, current_time, conflicts, k, result,
                   run, mode, first, added>>
    /\ UNCHANGED planvars
    /\ UNCHANGED callvars

\* lines 128-145: one iteration of the inner conflict loop.
ComparePair ==
    /\ pc = "conflicts"
    /\ j <= Len(events)
    /\ LET event1 == events[i]
           event2 == events[j]
       IN  IF OverlapRaises(event1, event2)
           THEN /\ pc' = "raised"
                /\ UNCHANGED <<conflicts, i, j>>
           ELSE /\ conflicts' =
                      IF Overlap(event1, event2)
                         /\ ~ConflictExists(event1, event2, conflicts)
                      THEN Append(conflicts, CalendarConflict(event1, event2))
                      ELSE conflicts
                /\ i' = NextPair(i, j, Len(events))[1]
                /\ j' = NextPair(i, j, Len(events))[2]
                /\ pc' = "conflicts"
    /\ UNCHANGED <<input, events, tz_info, current_time, free_slots, k, result,
                   run, mode, first, added>>
    /\ UNCHANGED planvars
    /\ UNCHANGED callvars

\* lines 148-153: the summary holds its own list of the events.
Return ==
    /\ pc = "conflicts"
    /\ j > Len(events)
    /\ result' = CalendarSummaryOutput(events, free_slots, conflicts)
    /\ pc' = "done"
    /\ UNCHANGED <<input, events, tz_info, current_time, free_slots, conflicts,
                   k, i, j, run, mode, first, added>>
    /\ UNCHANGED planvars
    /\ UNCHANGED callvars

\* s with the elements at positions q and q+1 exchanged.
SwapAt(s, q) ==
    [p \in 1..Len(s) |-> IF p = q THEN s[q + 1] ELSE IF p = q + 1 THEN s[q] ELSE s[p]]

\* s with x put in at position q.
InsertAt(s, q, x) == SubSeq(s, 1, q - 1) \o <<x>> \o SubSeq(s, q, Len(s))

\* x.start_time is naive, or aware, as every start_time of s is: the sort
\* key of x can be ordered with the others.
Orderable(x, s) ==
    \A q \in 1..Len(s) : Comparable(x.start_time, s[q].start_time)

\* The caller calls analyze_schedule a second time: on a fresh copy of the
\* first input, on the events list of the first summary, on the first
\* input with two neighbours exchanged, or on the first input with one more
\* event whose start is not before its end (and can be sorted with the
\* others).
CallAgain ==
    /\ pc = "done"
    /\ run = 1
    /\ \/ /\ mode' = "copy"
          /\ input' = input
          /\ added' = added
       \/ /\ mode' = "result"
          /\ input' = result.events
          /\ added' = added
       \/ /\ mode' = "permuted"
          /\ \E q \in 1..(Len(input) - 1) : input' = SwapAt(input, q)
          /\ added' = added
       \/ /\ mode' = "extended"
          /\ \E x \in BackwardEvents : \E q \in 1..(Len(input) + 1) :
                /\ Orderable(x, input)
                /\ input' = InsertAt(input, q, x)
                /\ added' = x
    /\ events' = input'
    /\ first' = result
    /\ result' = NoSummary
    /\ run' = 2
    /\ pc' = "call"
    /\ UNCHANGED <<tz_info, current_time, free_slots, conflicts, k, i, j>>
    /\ UNCHANGED planvars
    /\ UNCHANGED callvars

schedvars == <<pc, input, events, tz_info, current_time, free_slots, conflicts,
               k, i, j, result, run, mode, first, added>>

\* combine_agent_outputs is called with the summary analyze_schedule
\* returned, or with None in its place.
StartCombine ==
    /\ pc = "done"
    /\ cpc = "idle"
    /\ calendar_summary' \in
          {result} \cup (IF input = <<>> THEN {NoSummary} ELSE {})
    /\ plan_items' = <<>>
    /\ ce' = 1
    /\ cpc' = "events"
    /\ UNCHANGED <<task_list, context_info, sorted_tasks, time_idx, cr, final_plan>>
    /\ UNCHANGED schedvars
    /\ UNCHANGED callvars

\* lines 49-62: one turn of the loop over calendar_summary.events; an event
\* whose PlanItem cannot be built is logged and left out.
AddEvent ==
    /\ cpc = "events"
    /\ Truthy(calendar_summary)
    /\ IF IsNone(calendar_summary)
       THEN /\ cpc' = "raised"
            /\ UNCHANGED <<plan_items, ce>>
       ELSE /\ ce <= Len(calendar_summary.events)
            /\ LET event == calendar_summary.events[ce]
               IN  IF TimeRaises(event.start_time)
                   THEN UNCHANGED plan_items
                   ELSE plan_items' =
                           Append(plan_items,
                                  PlanItem(EventTime(event), "event", event, NoPriority))
            /\ ce' = ce + 1
            /\ UNCHANGED cpc
    /\ UNCHANGED <<calendar_summary, task_list, context_info, sorted_tasks,
                   time_idx, cr, final_plan>>
    /\ UNCHANGED schedvars
    /\ UNCHANGED callvars

\* lines 66-76: the events are done; sort the tasks and reset time_idx.
BeginTasks ==
    /\ cpc = "events"
    /\ IF Truthy(calendar_summary)
       THEN ~IsNone(calendar_summary) /\ ce > Len(calendar_summary.events)
       ELSE TRUE
    /\ IF Truthy(task_list)
       THEN IF IsNone(task_list)
            THEN /\ cpc' = "raised"
                 /\ UNCHANGED sorted_tasks
            ELSE /\ sorted_tasks' = SortByPriority(task_list.tasks)
                 /\ cpc' = "tasks"
       ELSE /\ cpc' = "tasks"
            /\ UNCHANGED sorted_tasks
    /\ time_idx' = 0
    /\ UNCHANGED <<calendar_summary, task_list, context_info, plan_items,
                   ce, cr, final_plan>>
    /\ UNCHANGED schedvars
    /\ UNCHANGED callvars

\* lines 77-89: one turn of the loop over sorted_tasks.
AssignTask ==
    /\ cpc = "tasks"
    /\ Truthy(task_list)
    /\ time_idx < Len(sorted_tasks)
    /\ LET task == sorted_tasks[time_idx + 1]
       IN  IF PlanItemRaises(task.priority)
           THEN /\ cpc' = "raised"
                /\ UNCHANGED plan_items
           ELSE /\ plan_items' =
                      Append(plan_items,
                             PlanItem(AssignedTime(time_idx), "task", task, task.priority))
                /\ UNCHANGED cpc
    /\ time_idx' = time_idx + 1
    /\ UNCHANGED <<calendar_summary, task_list, context_info, sorted_tasks,
                   ce, cr, final_plan>>
    /\ UNCHANGED schedvars
    /\ UNCHANGED callvars

\* lines 77-89, all turns of the loop in one step, for tasks PlanItem
\* accepts.
TaskItems(ts) ==
    [q \in 1..Len(ts) |->
        PlanItem(AssignedTime(q - 1), "task", ts[q], ts[q].priority)]

AssignTasks ==
    /\ cpc = "tasks"
    /\ Truthy(task_list)
    /\ time_idx = 0
    /\ { q \in 1..Len(sorted_tasks) : PlanItemRaises(sorted_tasks[q].priority) } = {}
    /\ plan_items' = plan_items \o TaskItems(sorted_tasks)
    /\ time_idx' = Len(sorted_tasks)
    /\ cpc' = "recs"
    /\ cr' = 1
    /\ UNCHANGED <<calendar_summary, task_list, context_info, sorted_tasks,
                   ce, final_plan>>
    /\ UNCHANGED schedvars
    /\ UNCHANGED callvars

\* line 92: the tasks are done.
BeginRecs ==
    /\ cpc = "tasks"
    /\ IF Truthy(task_list) THEN time_idx >= Len(sorted_tasks) ELSE TRUE
    /\ IF Truthy(context_info) /\ IsNone(context_info)
       THEN cpc' = "raised"
       ELSE cpc' = "recs"
    /\ cr' = 1
    /\ UNCHANGED <<calendar_summary, task_list, context_info, plan_items,
                   sorted_tasks, time_idx, ce, final_plan>>
    /\ UNCHANGED schedvars
    /\ UNCHANGED callvars

\* lines 94-104: one turn of the loop over context_info.recommendations; a
\* recommendation whose PlanItem cannot be built is logged and left out.
AddRecommendation ==
    /\ cpc = "recs"
    /\ Truthy(context_info)
    /\ cr <= Len(context_info.recommendations)
    /\ LET rec == context_info.recommendations[cr]
       IN  IF Truthy(rec.impact_time) /\ TimeRaises(rec.impact_time)
           THEN UNCHANGED plan_items
           ELSE plan_items' =
                   Append(plan_items,
                          PlanItem(RecTime(rec), "recommendation", rec, NoPriority))
    /\ cr' = cr + 1
    /\ UNCHANGED <<cpc, calendar_summary, task_list, context_info, sorted_tasks,
                   time_idx, ce, final_plan>>
    /\ UNCHANGED schedvars
    /\ UNCHANGED callvars

\* lines 108-123: sort plan_items in place, build the plan object, return.
Finish ==
    /\ cpc = "recs"
    /\ IF Truthy(context_info) THEN cr > Len(context_info.recommendations) ELSE TRUE
    /\ plan_items' = SortByTime(plan_items)
    /\ final_plan' =
          ConsolidatedDailyPlanOutput(plan_items', calendar_summary, task_list,
                                      context_info)
    /\ cpc' = "planned"
    /\ UNCHANGED <<calendar_summary, task_list, context_info, sorted_tasks,
                   time_idx, ce, cr>>
    /\ UNCHANGED schedvars
    /\ UNCHANGED callvars

\* The holder of the returned plan object changes its plan: nothing of
\* ConsolidatedDailyPlanOutput runs on these.
PlanAppend ==
    /\ cpc = "planned"
    /\ Len(final_plan.plan) < MaxPlanItems
    /\ \E it \in MutationItems :
          final_plan' = [final_plan EXCEPT !.plan = Append(@, it)]
    /\ UNCHANGED <<cpc, calendar_summary, task_list, context_info, plan_items,
                   sorted_tasks, time_idx, ce, cr>>
    /\ UNCHANGED schedvars
    /\ UNCHANGED callvars

PlanInsert ==
    /\ cpc = "planned"
    /\ Len(final_plan.plan) < MaxPlanItems
    /\ \E it \in MutationItems : \E q \in 1..(Len(final_plan.plan) + 1) :
          final_plan' = [final_plan EXCEPT !.plan = InsertAt(@, q, it)]
    /\ UNCHANGED <<cpc, calendar_summary, task_list, context_info, plan_items,
                   sorted_tasks, time_idx, ce, cr>>
    /\ UNCHANGED schedvars
    /\ UNCHANGED callvars

PlanAssign ==
    /\ cpc = "planned"
    /\ \E l \in Lists(MutationItems, MaxItems) :
          final_plan' = [final_plan EXCEPT !.plan = l]
    /\ UNCHANGED <<cpc, calendar_summary, task_list, context_info, plan_items,
                   sorted_tasks, time_idx, ce, cr>>
    /\ UNCHANGED schedvars
    /\ UNCHANGED callvars

Next ==
    \/ Call
    \/ SweepEvent
    \/ TrailingSlot
    \/ ComparePair
    \/ Return

NextTwice ==
    \/ Next
    \/ CallAgain

Spec == Init /\ [][Next]_vars
SpecZone == InitZone /\ [][Next]_vars
SpecTwice == InitTwice /\ [][NextTwice]_vars
SpecTwiceZone == InitZone /\ [][NextTwice]_vars
SpecScenario == InitScenario /\ [][Next]_vars

NextPlan ==
    \/ Next
    \/ StartCombine
    \/ AddEvent
    \/ BeginTasks
    \/ AssignTask
    \/ BeginRecs
    \/ AddRecommendation
    \/ Finish

\* combine_agent_outputs has returned and is called once more, on another
\* day or the same, with the same four arguments.
CombineAgain ==
    /\ cpc = "planned"
    /\ ~first_plan.built
    /\ first_plan' = final_plan
    /\ today' \in LaterDays
    /\ plan_items' = <<>>
    /\ sorted_tasks' = <<>>
    /\ time_idx' = 0
    /\ ce' = 1
    /\ cr' = 1
    /\ final_plan' = NoPlan
    /\ cpc' = "events"
    /\ UNCHANGED <<calendar_summary, task_list, context_info>>
    /\ UNCHANGED <<target_date_str, target_date, rpc, upstream, returned,
                   final_plan_json, parsed_plan>>
    /\ UNCHANGED schedvars

\* main.py line 252: the returned plan is written as JSON.
DumpPlan ==
    /\ cpc = "planned"
    /\ final_plan_json = NoJson
    /\ final_plan_json' = model_dump_json(final_plan)
    /\ UNCHANGED <<target_date_str, target_date, today, first_plan, rpc, upstream,
                   returned, parsed_plan>>
    /\ UNCHANGED planvars
    /\ UNCHANGED schedvars

\* A reader of the JSON text builds the plan object from it.
ParsePlan ==
    /\ final_plan_json # NoJson
    /\ ~parsed_plan.built
    /\ parsed_plan' = model_validate_json(final_plan_json)
    /\ UNCHANGED <<target_date_str, target_date, today, first_plan, rpc, upstream,
                   returned, final_plan_json>>
    /\ UNCHANGED planvars
    /\ UNCHANGED schedvars

(***************************************************************************)
(* run_planner (main.py lines 126-206) and the invoke methods of the three *)
(* agents it calls.                                                        *)
(***************************************************************************)
\* lines 139-143
ParseTargetDate ==
    /\ rpc = "start"
    /\ IF target_date_str.iso
       THEN /\ target_date' = target_date_str.date
            /\ rpc' = "calendar"
            /\ UNCHANGED returned
       ELSE /\ returned' = "None"
            /\ rpc' = "returned"
            /\ UNCHANGED target_date
    /\ UNCHANGED <<target_date_str, today, first_plan, upstream, final_plan_json,
                   parsed_plan>>
    /\ UNCHANGED planvars
    /\ UNCHANGED schedvars

\* What get_calendar_events_tool does inside CalendarAgent.invoke: it
\* raises, returns {"error": ...}, returns text json.loads rejects, or
\* returns the list of events.
CalendarOutcomes == {"raises", "error", "undecodable", "events"}
AgentOutcomes == {"raises", "error", "items"}

\* CalendarSummaryOutput(summary_date=target_date, events=[], free_slots=[],
\* conflicts=[]) of calendar_agent.py lines 195, 226 and 229.
EmptySummary == CalendarSummaryOutput(<<>>, <<>>, <<>>)

\* main.py lines 168-171: the summary is kept unless it is None or of
\* another date.
Checked(summary) ==
    IF ~Truthy(summary) \/ summary.summary_date # target_date
    THEN NoSummary
    ELSE summary

\* main.py lines 164-179 with calendar_agent.py lines 186-210: up to the call
\* of analyze_schedule.
InvokeCalendar ==
    /\ rpc = "calendar"
    /\ \E o \in CalendarOutcomes :
          /\ upstream' = [upstream EXCEPT !.calendar = o]
          /\ CASE o = "raises" ->
                    /\ returned' = "None"
                    /\ rpc' = "returned"
                    /\ UNCHANGED <<calendar_summary, input, events, pc>>
               [] o \in {"error", "undecodable"} ->
                    /\ calendar_summary' = Checked(EmptySummary)
                    /\ rpc' = "email"
                    /\ UNCHANGED <<returned, input, events, pc>>
               [] o = "events" ->
                    /\ \E l \in Lists(RunEvents, MaxItems) :
                          /\ input' = l
                          /\ events' = l
                    /\ pc' = "call"
                    /\ rpc' = "analyze"
                    /\ UNCHANGED <<returned, calendar_summary>>
    /\ UNCHANGED <<target_date_str, target_date, today, first_plan, final_plan_json,
                   parsed_plan>>
    /\ UNCHANGED <<cpc, task_list, context_info, plan_items, sorted_tasks, time_idx,
                   ce, cr, final_plan>>
    /\ UNCHANGED <<tz_info, current_time, free_slots, conflicts, k, i, j, result,
                   run, mode, first, added>>

\* calendar_agent.py lines 213-229 and main.py lines 168-173:
\* analyze_schedule has returned, or has raised and invoke returns the
\* empty summary in its place.
CalendarReturns ==
    /\ rpc = "analyze"
    /\ pc \in {"done", "raised"}
    /\ calendar_summary' = Checked(IF pc = "done" THEN result ELSE EmptySummary)
    /\ rpc' = "email"
    /\ UNCHANGED <<target_date_str, target_date, today, first_plan, upstream,
                   returned, final_plan_json, parsed_plan>>
    /\ UNCHANGED <<cpc, task_list, context_info, plan_items, sorted_tasks, time_idx,
                   ce, cr, final_plan>>
    /\ UNCHANGED schedvars

\* main.py lines 181-189 with EmailAgent.invoke: task_list stays None when
\* invoke raises.
InvokeEmail ==
    /\ rpc = "email"
    /\ \E o \in AgentOutcomes :
          /\ upstream' = [upstream EXCEPT !.email = o]
          /\ CASE o = "raises" -> UNCHANGED task_list
               [] o = "error" -> task_list' = PrioritizedTaskListOutput(<<>>)
               [] o = "items" ->
                    \E ts \in Lists(RunTasks, MaxItems) :
                        task_list' = PrioritizedTaskListOutput(ts)
    /\ rpc' = "context"
    /\ UNCHANGED <<target_date_str, target_date, today, first_plan, returned,
                   final_plan_json, parsed_plan>>
    /\ UNCHANGED <<cpc, calendar_summary, context_info, plan_items, sorted_tasks,
                   time_idx, ce, cr, final_plan>>
    /\ UNCHANGED schedvars

\* main.py lines 191-199 with ContextAgent.invoke.
InvokeContext ==
    /\ rpc = "context"
    /\ \E o \in AgentOutcomes :
          /\ upstream' = [upstream EXCEPT !.context = o]
          /\ CASE o = "raises" -> UNCHANGED context_info
               [] o = "error" -> context_info' = ContextOutput(<<>>)
               [] o = "items" ->
                    \E rs \in Lists(RunRecs, MaxItems) :
                        context_info' = ContextOutput(rs)
    /\ rpc' = "combine"
    /\ UNCHANGED <<target_date_str, target_date, today, first_plan, returned,
                   final_plan_json, parsed_plan>>
    /\ UNCHANGED <<cpc, calendar_summary, task_list, plan_items, sorted_tasks,
                   time_idx, ce, cr, final_plan>>
    /\ UNCHANGED schedvars

\* main.py line 204: combine_agent_outputs is called with the three locals.
CallCombine ==
    /\ rpc = "combine"
    /\ cpc = "idle"
    /\ cpc' = "events"
    /\ plan_items' = <<>>
    /\ ce' = 1
    /\ rpc' = "combining"
    /\ UNCHANGED <<target_date_str, target_date, today, first_plan, upstream,
                   returned, final_plan_json, parsed_plan>>
    /\ UNCHANGED <<calendar_summary, task_list, context_info, sorted_tasks,
                   time_idx, cr, final_plan>>
    /\ UNCHANGED schedvars

\* main.py line 206: the plan is returned; nothing catches what
\* combine_agent_outputs raises.
ReturnPlan ==
    /\ rpc = "combining"
    /\ cpc \in {"planned", "raised"}
    /\ returned' = IF cpc = "planned" THEN "plan" ELSE "raised"
    /\ rpc' = "returned"
    /\ UNCHANGED <<target_date_str, target_date, today, first_plan, upstream,
                   final_plan_json, parsed_plan>>
    /\ UNCHANGED planvars
    /\ UNCHANGED schedvars

NextCombine ==
    \/ AddEvent
    \/ BeginTasks
    \/ AssignTask
    \/ BeginRecs
    \/ AddRecommendation
    \/ Finish

NextManyTasks ==
    \/ AssignTasks
    \/ Finish

NextAgain ==
    \/ NextCombine
    \/ CombineAgain

NextRoundTrip ==
    \/ NextCombine
    \/ DumpPlan
    \/ ParsePlan

NextRun ==
    \/ ParseTargetDate
    \/ InvokeCalendar
    \/ Next
    \/ CalendarReturns
    \/ InvokeEmail
    \/ InvokeContext
    \/ CallCombine
    \/ NextCombine
    \/ ReturnPlan

NextPlanObject ==
    \/ NextPlan
    \/ PlanAppend
    \/ PlanInsert
    \/ PlanAssign

SpecPlan == InitPlan /\ [][NextPlan]_vars
SpecPlanAnyPriority == InitPlanAnyPriority /\ [][NextPlan]_vars
SpecPlanObject == InitPlanObject /\ [][NextPlanObject]_vars
SpecManyTasks == InitManyTasks /\ [][AssignTasks]_vars
SpecTies == InitTies /\ [][NextPlan]_vars
SpecWrapTasks == InitWrapTasks /\ [][NextManyTasks]_vars
SpecAgain == InitAgain /\ [][NextAgain]_vars
SpecRoundTrip == InitRoundTrip /\ [][NextRoundTrip]_vars
SpecRun == InitRun /\ [][NextRun]_vars
SpecMalformed == InitMalformed /\ [][NextCombine]_vars

(***************************************************************************)
(* Vocabulary of the properties: the window, the clamped events and the    *)
(* returned slots as intervals of instants.                                *)
(***************************************************************************)
Returned == pc = "done"

WindowStart == Instant(day_start_time)
WindowEnd == Instant(day_end_time)

Greater(a, b) == IF a < b THEN b ELSE a
Smaller(a, b) == IF b < a THEN b ELSE a
Highest(S) == CHOOSE x \in S : \A y \in S : y <= x
Lowest(S) == CHOOSE x \in S : \A y \in S : x <= y

\* An event of the caller's list clamped to the window.
BusyStart(e) == Greater(Instant(ToZone(e.start_time, tz_info)), WindowStart)
BusyEnd(e) == Smaller(Instant(ToZone(e.end_time, tz_info)), WindowEnd)
Busy == { <<BusyStart(input[a]), BusyEnd(input[a])>> : a \in 1..Len(input) }
BusyIntervals == { b \in Busy : b[1] < b[2] }

SlotIntervals ==
    { <<Instant(result.free_slots[q].start_time),
        Instant(result.free_slots[q].end_time)>> : q \in 1..Len(result.free_slots) }

\* The window cut at every end point of a clamped event or a slot: between
\* two neighbouring cut points nothing starts or ends.
CutPoints ==
    { x \in {WindowStart, WindowEnd}
            \cup { b[1] : b \in BusyIntervals } \cup { b[2] : b \in BusyIntervals }
            \cup { f[1] : f \in SlotIntervals } \cup { f[2] : f \in SlotIntervals } :
        WindowStart <= x /\ x <= WindowEnd }
Cells ==
    { c \in CutPoints \X CutPoints :
        c[1] < c[2] /\ ~\E x \in CutPoints : c[1] < x /\ x < c[2] }

Inside(c, v) == v[1] <= c[1] /\ c[2] <= v[2]
Meets(u, v) == Greater(u[1], v[1]) < Smaller(u[2], v[2])
InEvent(c) == \E b \in BusyIntervals : Inside(c, b)
SlotsOver(c) ==
    { q \in 1..Len(result.free_slots) :
        Inside(c, <<Instant(result.free_slots[q].start_time),
                    Instant(result.free_slots[q].end_time)>>) }

\* The maximal stretch of the window around an uncovered cell that no
\* clamped event covers.
GapStart(c) ==
    Highest({WindowStart} \cup { b[2] : b \in { x \in BusyIntervals : x[2] <= c[1] } })
GapEnd(c) ==
    Lowest({WindowEnd} \cup { b[1] : b \in { x \in BusyIntervals : x[1] >= c[2] } })

NoOverlapInWindow ==
    /\ \A c \in Cells : ~(InEvent(c) /\ SlotsOver(c) # {})
    /\ \A c \in Cells : Cardinality(SlotsOver(c)) <= 1
    /\ \A f \in SlotIntervals : \A b \in BusyIntervals : ~Meets(f, b)

\* C1 as stated: when analyze_schedule returns, every instant of the
\* 09:00-17:00 window lies in a free slot or in a clamped event, and no
\* free slot overlaps a clamped event or another free slot.
C1_ExactCover ==
    Returned =>
        /\ \A c \in Cells : InEvent(c) \/ SlotsOver(c) # {}
        /\ NoOverlapInWindow

\* C1 amended: when analyze_schedule returns, every instant of the window
\* lies in a free slot, in a clamped event, or in a gap between them that is
\* shorter than 15 minutes; no free slot overlaps a clamped event or another
\* free slot.
C1_CoverUpToShortGaps ==
    Returned =>
        /\ \A c \in Cells :
              \/ InEvent(c)
              \/ SlotsOver(c) # {}
              \/ GapEnd(c) - GapStart(c) < MinFreeMinutes
        /\ NoOverlapInWindow

\* C1 witness: a returned summary whose window holds a clamped event, a free
\* slot and a gap left out because it is short.
C1_Witness ==
    /\ Returned
    /\ \E c \in Cells : InEvent(c)
    /\ \E c \in Cells : SlotsOver(c) # {}
    /\ \E c \in Cells : ~InEvent(c) /\ SlotsOver(c) = {}
    /\ \E a, b \in BusyIntervals : Meets(a, b) /\ a # b

\* The maximal sub-intervals of the window that no clamped event covers.
GapEnds == {WindowStart, WindowEnd}
               \cup { b[1] : b \in BusyIntervals } \cup { b[2] : b \in BusyIntervals }
MaximalGaps ==
    { g \in GapEnds \X GapEnds :
        /\ g[1] < g[2]
        /\ \A b \in BusyIntervals : ~Meets(g, b)
        /\ g[1] = WindowStart \/ \E b \in BusyIntervals : b[2] = g[1]
        /\ g[2] = WindowEnd \/ \E b \in BusyIntervals : b[1] = g[2] }

\* C2: the slots returned are exactly the maximal sub-intervals of the
\* window not covered by a clamped event that last at least 15 minutes, each
\* returned once.
C2_MaximalFreeIntervals ==
    Returned =>
        /\ SlotIntervals = { g \in MaximalGaps : g[2] - g[1] >= 15 }
        /\ Cardinality(SlotIntervals) = Len(result.free_slots)

\* C2 witness: a summary returned for a window with a gap of exactly 15
\* minutes (returned) and a gap of exactly 14 minutes (not returned).
C2_Witness ==
    /\ Returned
    /\ \E g \in MaximalGaps : g[2] - g[1] = 15 /\ g \in SlotIntervals
    /\ \E g \in MaximalGaps : g[2] - g[1] = 14 /\ g \notin SlotIntervals

\* C3: the slots returned lie inside the window, each ends after it starts,
\* and each ends at or before the start of the next one in the list.
C3_SlotsOrderedInWindow ==
    Returned =>
        /\ \A q \in 1..Len(result.free_slots) :
              /\ WindowStart <= Instant(result.free_slots[q].start_time)
              /\ Instant(result.free_slots[q].start_time)
                    < Instant(result.free_slots[q].end_time)
              /\ Instant(result.free_slots[q].end_time) <= WindowEnd
        /\ \A q \in 1..(Len(result.free_slots) - 1) :
              Instant(result.free_slots[q].end_time)
                  <= Instant(result.free_slots[q + 1].start_time)

\* C3 witness: a summary with two slots, returned for overlapping events.
C3_Witness ==
    /\ Returned
    /\ Len(result.free_slots) >= 2
    /\ \E a, b \in 1..Len(input) : a # b /\ Overlap(input[a], input[b])

\* C4: no slot shorter than 15 minutes is ever produced, at any point of
\* the sweep.
C4_NoShortSlot ==
    \A q \in 1..Len(free_slots) :
        /\ Minutes(free_slots[q].start_time, free_slots[q].end_time) >= 15
        /\ free_slots[q].duration_minutes >= 15

\* C4 witness: a summary returned although a gap shorter than 15 minutes
\* lies between two events, and another between an event and the window end.
C4_Witness ==
    /\ Returned
    /\ \E g \in MaximalGaps :
          /\ g[2] - g[1] < 15
          /\ g[1] # WindowStart
          /\ g[2] # WindowEnd
    /\ \E g \in MaximalGaps : g[2] - g[1] < 15 /\ g[2] = WindowEnd
    /\ Len(result.free_slots) > 0

\* Two events overlap: max(A.start, B.start) < min(A.end, B.end).
Overlapping(a, b) ==
    Greater(Instant(a.start_time), Instant(b.start_time))
        < Smaller(Instant(a.end_time), Instant(b.end_time))
Touching(a, b) ==
    /\ Instant(a.end_time) = Instant(b.start_time)
    /\ Instant(a.start_time) < Instant(a.end_time)
    /\ Instant(b.start_time) < Instant(b.end_time)

\* Some returned conflict contains an event equal to a and one equal to b
\* (equal as CalendarEvent values are: field by field).
ReportedTogether(a, b) ==
    \E q \in 1..Len(result.conflicts) :
        /\ \E x \in 1..Len(result.conflicts[q].conflicting_events) :
              EventEq(result.conflicts[q].conflicting_events[x], a)
        /\ \E x \in 1..Len(result.conflicts[q].conflicting_events) :
              EventEq(result.conflicts[q].conflicting_events[x], b)

SamePair(c, d) ==
    \/ /\ EventEq(c.conflicting_events[1], d.conflicting_events[1])
       /\ EventEq(c.conflicting_events[2], d.conflicting_events[2])
    \/ /\ EventEq(c.conflicting_events[1], d.conflicting_events[2])
       /\ EventEq(c.conflicting_events[2], d.conflicting_events[1])

\* C6: every conflict entry holds exactly two events and no two entries
\* hold the same unordered pair of events, at any point of the detection.
C6_PairReportedOnce ==
    /\ \A q \in 1..Len(conflicts) : Len(conflicts[q].conflicting_events) = 2
    /\ \A p, q \in 1..Len(conflicts) : p # q => ~SamePair(conflicts[p], conflicts[q])

\* C6 witness: a summary for three mutually overlapping events, two of them
\* equal, with fewer entries than overlapping pairs of positions.
C6_Witness ==
    /\ Returned
    /\ Len(input) = 3
    /\ \A a, b \in 1..3 : Overlapping(input[a], input[b])
    /\ \E a, b \in 1..3 : a # b /\ input[a] = input[b]
    /\ Len(result.conflicts) = 2

SecondReturned(m) == pc = "done" /\ run = 2 /\ mode = m

\* C7: a second call on a copy of the first input, or on the events list of
\* the first summary, returns a summary equal to the first one in every
\* field.
C7_SecondCallSameSummary ==
    (SecondReturned("copy") \/ SecondReturned("result")) => result = first

\* C7 witness: a second call on the events of the first summary, which hold
\* two different events with the same start, a conflict and a free slot.
C7_Witness ==
    /\ SecondReturned("result")
    /\ \E a, b \in 1..Len(result.events) :
          /\ result.events[a] # result.events[b]
          /\ result.events[a].start_time = result.events[b].start_time
    /\ Len(result.conflicts) > 0
    /\ Len(result.free_slots) > 0

\* C8: after analyze_schedule has returned, the list the caller passed in
\* holds the same events in the same order as before the call.
C8_CallerListUntouched == Returned => events = input

\* C9: a call on the same events in another order returns the same events
\* sequence, sorted ascending by start, the same free slots and the same
\* conflicts.
C9_OrderIndependent ==
    SecondReturned("permuted") =>
        /\ result.events = first.events
        /\ \A a \in 1..(Len(result.events) - 1) :
              Instant(result.events[a].start_time)
                  <= Instant(result.events[a + 1].start_time)
        /\ result.free_slots = first.free_slots
        /\ result.conflicts = first.conflicts

\* C10: analyze_schedule never raises, whatever the number of events, the
\* relation of start to end, and the mix of timestamps with and without an
\* offset.
C10_NeverRaises == pc # "raised"

\* FreeTimeSlot lists equal as Python compares them: field by field, aware
\* datetimes by instant.
SameSlots(a, b) ==
    /\ Len(a) = Len(b)
    /\ \A q \in 1..Len(a) :
          /\ DtEq(a[q].start_time, b[q].start_time)
          /\ DtEq(a[q].end_time, b[q].end_time)
          /\ a[q].duration_minutes = b[q].duration_minutes

\* C11: a second call on the first input plus one event x with
\* x.start >= x.end returns the free slots of the first call, and no
\* returned conflict contains x.
C11_BackwardEventAddsNothing ==
    SecondReturned("extended") =>
        /\ SameSlots(result.free_slots, first.free_slots)
        /\ \A q \in 1..Len(result.conflicts) : ~InConflict(added, result.conflicts[q])

\* C12: with zero events the summary holds exactly one free slot, 09:00 to
\* 17:00 with duration 480 minutes, and no conflict.
C12_EmptyDayOneSlot ==
    (Returned /\ input = <<>>) =>
        /\ result.free_slots =
              << [start_time |-> Naive(540), end_time |-> Naive(1020),
                  duration_minutes |-> 480] >>
        /\ result.conflicts = <<>>
        /\ result.events = <<>>

\* C12 witness: analyze_schedule has returned for the empty list.
C12_Witness == Returned /\ input = <<>> /\ Len(result.free_slots) = 1

\* C13: for the events A, B, C of the scenario in any order the summary
\* holds exactly one conflict, the pair (A, B), and exactly the free slots
\* 10:30-13:00 and 14:00-17:00.
C13_Scenario ==
    (Returned /\ input \in Reorderings(<<ScenarioA, ScenarioB, ScenarioC>>)) =>
        /\ Len(result.conflicts) = 1
        /\ result.conflicts[1].conflicting_events = <<ScenarioA, ScenarioB>>
        /\ result.free_slots =
              << [start_time |-> Naive(630), end_time |-> Naive(780),
                  duration_minutes |-> 150],
                 [start_time |-> Naive(840), end_time |-> Naive(1020),
                  duration_minutes |-> 180] >>

\* C13 witness: analyze_schedule has returned for C, B, A.
C13_Witness ==
    /\ Returned
    /\ input = <<ScenarioC, ScenarioB, ScenarioA>>
    /\ Len(result.free_slots) = 2

(***************************************************************************)
(* Vocabulary of the properties of combine_agent_outputs.                  *)
(***************************************************************************)
Planned == cpc = "planned"

GivenEvents == IF IsNone(calendar_summary) THEN <<>> ELSE calendar_summary.events
GivenTasks == IF IsNone(task_list) THEN <<>> ELSE task_list.tasks
GivenRecs == IF IsNone(context_info) THEN <<>> ELSE context_info.recommendations

AscendingByTime(items) ==
    \A q \in 1..(Len(items) - 1) : items[q].time <= items[q + 1].time

\* How often x occurs in the sequence s.
Occurrences(s, x) == Cardinality({ q \in 1..Len(s) : s[q] = x })

\* The items of one kind, in the order of the sequence.
OfKind(items, kind) == SelectSeq(items, LAMBDA it : it.item_type = kind)

\* How many items of the plan are of the kind, hold d and stand at time t.
ItemsFor(kind, d, t) ==
    Cardinality({ q \in 1..Len(final_plan.plan) :
                    /\ final_plan.plan[q].item_type = kind
                    /\ final_plan.plan[q].time = t
                    /\ final_plan.plan[q].details = d })

\* How many items of the plan are of the kind and hold d.
ItemsHolding(kind, d) ==
    Cardinality({ q \in 1..Len(final_plan.plan) :
                    /\ final_plan.plan[q].item_type = kind
                    /\ final_plan.plan[q].details = d })

WithPriority(ts, p) == SelectSeq(ts, LAMBDA t : t.priority = p)

\* The tasks in priority order, equal priorities in input order, unknown
\* priorities last.
InPriorityOrder(ts) ==
    WithPriority(ts, "urgent") \o WithPriority(ts, "high")
        \o WithPriority(ts, "medium") \o WithPriority(ts, "low")
        \o SelectSeq(ts, LAMBDA t : t.priority \notin Priorities)

\* C14: the plan combine_agent_outputs returns is ascending by time of day,
\* whichever inputs are present and whatever they hold.
C14_PlanSortedByTime ==
    Planned => final_plan.built /\ AscendingByTime(final_plan.plan)

\* C14 witness: a plan of two events whose start order is not their
\* time-of-day order, two tasks and two recommendations.
C14_Witness ==
    /\ Planned
    /\ GivenEvents = <<PlanEventB, PlanEventA>>
    /\ Len(GivenTasks) = 2
    /\ GivenRecs = <<ContextRecommendation(None), ContextRecommendation(Naive(400))>>
    /\ Len(final_plan.plan) = 6
    /\ final_plan.plan[1].item_type = "recommendation"

\* C15: the plan of a plan object is ascending by time after every change
\* made to it: an append, an insert, an assignment of a new list.
C15_SortedAfterMutation ==
    final_plan.built => AscendingByTime(final_plan.plan)

\* C16: no absent input makes combine_agent_outputs raise; a plan is
\* returned in which an absent input has no item and a count of zero, and
\* with all three absent the plan is empty.
C16_AbsentInputsAddNothing ==
    /\ cpc # "raised"
    /\ cpc \in {"events", "tasks", "recs"} => ENABLED NextPlan
    /\ Planned =>
          /\ final_plan.built
          /\ IsNone(calendar_summary) =>
                /\ OfKind(final_plan.plan, "event") = <<>>
                /\ final_plan.summary.events = 0
          /\ IsNone(task_list) =>
                /\ OfKind(final_plan.plan, "task") = <<>>
                /\ final_plan.summary.tasks = 0
          /\ IsNone(context_info) =>
                /\ OfKind(final_plan.plan, "recommendation") = <<>>
                /\ final_plan.summary.recommendations = 0
          /\ (IsNone(calendar_summary) /\ IsNone(task_list) /\ IsNone(context_info)) =>
                final_plan.plan = <<>>

\* C16 witness: a plan returned with all three inputs absent.
C16_Witness ==
    /\ Planned
    /\ IsNone(calendar_summary)
    /\ IsNone(task_list)
    /\ IsNone(context_info)
    /\ final_plan.summary =
          [date |-> target_date, events |-> 0, tasks |-> 0, recommendations |-> 0]

\* C17: when the loop over the tasks is over, the task items in order of
\* assignment hold the tasks in priority order: urgent, high, medium, low,
\* then unknown priorities, equal priorities in input order.
C17_TasksInPriorityOrder ==
    (cpc \in {"recs", "raised"} /\ ~IsNone(task_list)) =>
        LET assigned == OfKind(plan_items, "task")
        IN  /\ Len(assigned) = Len(GivenTasks)
            /\ \A q \in 1..Len(assigned) :
                  assigned[q].details = InPriorityOrder(GivenTasks)[q]

\* C18: no two tasks of one call receive the same time of day, however
\* many tasks there are.
C18_TaskTimesDistinct ==
    cpc \in {"recs", "planned"} =>
        LET assigned == OfKind(plan_items, "task")
        IN  /\ Len(assigned) = Len(GivenTasks)
            /\ Cardinality({ assigned[q].time : q \in 1..Len(assigned) })
                  = Len(assigned)

\* C19: every recommendation has one item of kind recommendation, at the
\* time of day of its impact_time, or at 07:00 when it has none.
C19_RecommendationTimes ==
    Planned =>
        /\ Len(OfKind(final_plan.plan, "recommendation")) = Len(GivenRecs)
        /\ \A q \in 1..Len(GivenRecs) :
              LET rec == GivenRecs[q]
                  t == IF rec.impact_time = None THEN 420
                       ELSE rec.impact_time.t % 1440
              IN  ItemsFor("recommendation", rec, t) = Occurrences(GivenRecs, rec)

\* C19 witness: a plan for a recommendation without impact_time and one
\* with it.
C19_Witness ==
    /\ Planned
    /\ GivenRecs = <<ContextRecommendation(None), ContextRecommendation(Naive(400))>>
    /\ Len(GivenEvents) = 2

\* C20: every event has exactly one item of kind event at the time of day
\* of its start, and the plan holds one item for each event, task and
\* recommendation given and no other.
C20_OneItemPerInput ==
    Planned =>
        /\ Len(final_plan.plan) = Len(GivenEvents) + Len(GivenTasks) + Len(GivenRecs)
        /\ Len(OfKind(final_plan.plan, "event")) = Len(GivenEvents)
        /\ \A q \in 1..Len(GivenEvents) :
              LET e == GivenEvents[q]
              IN  ItemsFor("event", e, e.start_time.t % 1440) = Occurrences(GivenEvents, e)
        /\ \A q \in 1..Len(GivenTasks) :
              ItemsHolding("task", GivenTasks[q]) = Occurrences(GivenTasks, GivenTasks[q])
        /\ \A q \in 1..Len(GivenRecs) :
              ItemsHolding("recommendation", GivenRecs[q])
                  = Occurrences(GivenRecs, GivenRecs[q])
        /\ \A q \in 1..Len(final_plan.plan) :
              LET it == final_plan.plan[q]
              IN  \/ it.item_type = "event"
                     /\ \E n \in 1..Len(GivenEvents) : it.details = GivenEvents[n]
                  \/ it.item_type = "task"
                     /\ \E n \in 1..Len(GivenTasks) : it.details = GivenTasks[n]
                  \/ it.item_type = "recommendation"
                     /\ \E n \in 1..Len(GivenRecs) : it.details = GivenRecs[n]

\* C20 witness: two events that do not overlap, no tasks, no
\* recommendations: a plan of exactly two items.
C20_Witness ==
    /\ Planned
    /\ GivenEvents = <<PlanEventA, PlanEventC>>
    /\ GivenTasks = <<>>
    /\ GivenRecs = <<>>
    /\ Len(final_plan.plan) = 2
    /\ final_plan.summary =
          [date |-> target_date, events |-> 2, tasks |-> 0, recommendations |-> 0]

(***************************************************************************)
(* The cursor of the free-slot sweep.                                      *)
(***************************************************************************)
\* The clamped ends of the valid events among the first n of the sorted
\* list.
ProcessedEnds(n) ==
    { BusyEnd(events[q]) :
        q \in { m \in 1..n : BusyStart(events[m]) < BusyEnd(events[m]) } }

\* In the sweep and after it the cursor is the latest of the window start
\* and the clamped ends of the valid events looked at so far, inside the
\* window.
CursorIsLatestEnd ==
    pc \in {"sweep", "conflicts", "done"} =>
        /\ Instant(current_time) = Highest({WindowStart} \cup ProcessedEnds(k - 1))
        /\ WindowStart <= Instant(current_time)
        /\ Instant(current_time) <= WindowEnd

\* A step of the sweep does not move the cursor backward.
CursorStep ==
    (pc = "sweep" /\ pc' \in {"sweep", "conflicts"}) =>
        Instant(current_time) <= Instant(current_time')

\* C26: the cursor of the sweep starts at the window start, never moves
\* backward, never passes the window end, and is at every step the maximum
\* of the window start and the clamped ends of the valid events processed
\* so far.
C26_CursorNeverBackward == []CursorIsLatestEnd /\ [][CursorStep]_vars

\* C26 witness: two events have been processed and the second ends before
\* the cursor, which the first one set.
C26_Witness ==
    /\ pc = "sweep"
    /\ k = 3
    /\ BusyStart(events[2]) < BusyEnd(events[2])
    /\ BusyEnd(events[2]) < Instant(current_time)
    /\ Instant(current_time) = BusyEnd(events[1])

\* The payloads of the items of one kind, in plan order.
DetailsOf(items, kind) ==
    LET of == OfKind(items, kind)
    IN  [q \in 1..Len(of) |-> of[q].details]

\* C28: the event items of the plan stand in the order of the events of
\* the schedule summary, which is sorted by start instant, also when the
\* events start on different dates or carry different offsets.
C28_EventsChronological ==
    Planned => DetailsOf(final_plan.plan, "event") = GivenEvents

(***************************************************************************)
(* Ties of the merge.                                                      *)
(***************************************************************************)
\* The items of a plan at one time of day, in the plan's order.
ItemsAt(items, t) == SelectSeq(items, LAMBDA it : it.time = t)

\* The elements of s that are the details of an item of the kind among
\* items, in the order of s.
Among(s, items, kind) ==
    SelectSeq(s, LAMBDA d :
        \E q \in 1..Len(items) : items[q].item_type = kind /\ items[q].details = d)

PlanTimes == { final_plan.plan[q].time : q \in 1..Len(final_plan.plan) }

\* C21: plan items of equal time of day stand events first, then tasks, then
\* recommendations, and within one kind in the order they were appended:
\* the summary's order for events, priority order for tasks (no two of
\* which share a time here), the input's order for recommendations.
C21_StableMerge ==
    Planned =>
        /\ DetailsOf(final_plan.plan, "task") = InPriorityOrder(GivenTasks)
        /\ \A t \in PlanTimes :
            LET at == ItemsAt(final_plan.plan, t)
            IN  /\ at = OfKind(at, "event") \o OfKind(at, "task")
                          \o OfKind(at, "recommendation")
                /\ DetailsOf(at, "event") = Among(GivenEvents, at, "event")
                /\ DetailsOf(at, "recommendation") =
                      Among(GivenRecs, at, "recommendation")

\* Two different events, a task and two different recommendations, all at
\* 09:00.
C21_Witness ==
    /\ Planned
    /\ LET at == ItemsAt(final_plan.plan, 540)
       IN  /\ Len(at) = 5
           /\ at[1].item_type = "event" /\ at[2].item_type = "event"
           /\ at[1] # at[2]
           /\ at[3].item_type = "task"
           /\ at[4].item_type = "recommendation"
           /\ at[4] # at[5]

(***************************************************************************)
(* The summary of the plan and items that cannot be turned into PlanItems. *)
(***************************************************************************)
\* The events and recommendations the loops of lines 51-62 and 94-104 log
\* and leave out.
SkippedEvents == SelectSeq(GivenEvents, LAMBDA e : TimeRaises(e.start_time))
SkippedRecs ==
    SelectSeq(GivenRecs, LAMBDA r :
        ~IsNone(r.impact_time) /\ TimeRaises(r.impact_time))

SummaryCountsInputs ==
    /\ final_plan.summary.date = target_date
    /\ final_plan.summary.events = Len(GivenEvents)
    /\ final_plan.summary.tasks = Len(GivenTasks)
    /\ final_plan.summary.recommendations = Len(GivenRecs)

\* C22 as stated: the summary names the date and, for each input, the number
\* of its items (0 when absent), and each number is the number of plan
\* items of that kind in the returned plan.
C22_SummaryCountsPlanItems ==
    Planned =>
        /\ SummaryCountsInputs
        /\ final_plan.summary.events = Len(OfKind(final_plan.plan, "event"))
        /\ final_plan.summary.tasks = Len(OfKind(final_plan.plan, "task"))
        /\ final_plan.summary.recommendations =
              Len(OfKind(final_plan.plan, "recommendation"))

\* C22 amended: the summary names the date and, for each input, the number
\* of its items (0 when absent); the plan holds that many items of the kind
\* less the items that were skipped.
C22_SummaryCountsInputs ==
    Planned =>
        /\ SummaryCountsInputs
        /\ Len(OfKind(final_plan.plan, "event")) =
              final_plan.summary.events - Len(SkippedEvents)
        /\ Len(OfKind(final_plan.plan, "task")) = final_plan.summary.tasks
        /\ Len(OfKind(final_plan.plan, "recommendation")) =
              final_plan.summary.recommendations - Len(SkippedRecs)

\* Two events of which one was skipped, no task list, one recommendation:
\* the summary counts 2, 0 and 1.
C22_Witness ==
    /\ Planned
    /\ IsNone(task_list)
    /\ Len(SkippedEvents) = 1
    /\ final_plan.summary.events = 2
    /\ final_plan.summary.tasks = 0
    /\ final_plan.summary.recommendations = 1
    /\ Len(final_plan.plan) = 2

\* The items of the inputs that can be turned into PlanItems.
WellFormedEvents == SelectSeq(GivenEvents, LAMBDA e : ~TimeRaises(e.start_time))
WellFormedTasks == SelectSeq(GivenTasks, LAMBDA t : ~PlanItemRaises(t.priority))
WellFormedRecs ==
    SelectSeq(GivenRecs, LAMBDA r :
        IsNone(r.impact_time) \/ ~TimeRaises(r.impact_time))

\* C24: an item that cannot be turned into a PlanItem is skipped by itself:
\* combine_agent_outputs never raises, always comes to return a plan, and
\* the plan holds the items of all other events, tasks and
\* recommendations.
C24_MalformedItemSkipped ==
    /\ cpc # "raised"
    /\ Planned \/ ENABLED NextCombine
    /\ Planned =>
          /\ \A q \in 1..Len(WellFormedEvents) :
                ItemsHolding("event", WellFormedEvents[q])
                    = Occurrences(GivenEvents, WellFormedEvents[q])
          /\ \A q \in 1..Len(WellFormedTasks) :
                ItemsHolding("task", WellFormedTasks[q])
                    = Occurrences(GivenTasks, WellFormedTasks[q])
          /\ \A q \in 1..Len(WellFormedRecs) :
                ItemsHolding("recommendation", WellFormedRecs[q])
                    = Occurrences(GivenRecs, WellFormedRecs[q])

(***************************************************************************)
(* Times of the tasks.                                                     *)
(***************************************************************************)
\* R = (09:00, 11:00, 14:00, 16:00) in minutes, and the minute count of the
\* n-th task in priority order before it is taken modulo 24 hours.
RotationMinute(n) ==
    CASE n % 4 = 0 -> 9 * 60
      [] n % 4 = 1 -> 11 * 60
      [] n % 4 = 2 -> 14 * 60
      [] n % 4 = 3 -> 16 * 60
Unwrapped(n) == RotationMinute(n) + n

\* Where the items of the tasks stand in the plan, by the tasks' places in
\* priority order.
PlacesOf(order) ==
    [n \in 0..(Len(order) - 1) |->
        CHOOSE q \in 1..Len(final_plan.plan) :
            final_plan.plan[q].details = order[n + 1]]

\* C27: the n-th task in priority order (n = 0, 1, ...) is given the time of
\* day (R[n mod 4] + n minutes) modulo 24 hours, and in the plan a task whose
\* time passed midnight stands before every task whose time did not.
C27_TaskTimeWraps ==
    LET order == InPriorityOrder(GivenTasks)
        given == OfKind(plan_items, "task")
        place == PlacesOf(order)
        late == { n \in 0..(Len(order) - 1) : Unwrapped(n) >= 24 * 60 }
    IN  /\ cpc = "recs" =>
              /\ Len(given) = Len(order)
              /\ \A n \in 0..(Len(order) - 1) :
                    /\ given[n + 1].details = order[n + 1]
                    /\ given[n + 1].time = Unwrapped(n) % (24 * 60)
        /\ Planned =>
              /\ Len(final_plan.plan) = Len(order)
              /\ \A n \in late : \A m \in (0..(Len(order) - 1)) \ late :
                    place[n] < place[m]

\* 484 tasks: the last in priority order is given 16:00 + 483 minutes, which
\* is 00:03, and stands first in the plan.
C27_Witness ==
    /\ Planned
    /\ Len(GivenTasks) = 484
    /\ final_plan.plan[1].time = 3
    /\ final_plan.plan[1].details = InPriorityOrder(GivenTasks)[484]
    /\ final_plan.plan[2].details = InPriorityOrder(GivenTasks)[1]

(***************************************************************************)
(* Two calls of combine_agent_outputs.                                     *)
(***************************************************************************)
\* C29: a second call of combine_agent_outputs with the arguments of the
\* first returns a plan equal to the first one's (date, items in order with
\* their times, summary), whatever day it is made on.
C29_SameArgumentsSamePlan ==
    (Planned /\ first_plan.built) => final_plan = first_plan

\* A second call one or two days after the first has returned, with two
\* tasks, an event and a recommendation.
C29_Witness ==
    /\ Planned
    /\ first_plan.built
    /\ today # 0
    /\ Len(GivenTasks) = 2
    /\ Len(GivenEvents) >= 1
    /\ Len(GivenRecs) >= 1
    /\ Len(final_plan.plan) >= 4

(***************************************************************************)
(* The JSON form of the plan.                                              *)
(***************************************************************************)
\* Equality of model objects as Python compares them: the same class and
\* equal fields, datetimes by DtEq.
SameOptionalDatetime(a, b) ==
    IF IsNone(a) \/ IsNone(b) THEN IsNone(a) /\ IsNone(b) ELSE DtEq(a, b)

SameDetails(x, y) ==
    /\ DOMAIN x = DOMAIN y
    /\ IF IsCalendarEvent(x) THEN EventEq(x, y)
       ELSE IF IsEmailTask(x) THEN x = y
       ELSE /\ x.type = y.type
            /\ x.details = y.details
            /\ SameOptionalDatetime(x.impact_time, y.impact_time)

SameItem(a, b) ==
    /\ a.time = b.time
    /\ a.item_type = b.item_type
    /\ a.priority = b.priority
    /\ SameDetails(a.details, b.details)

SamePlan(p, r) ==
    /\ p.date = r.date
    /\ p.summary = r.summary
    /\ Len(p.plan) = Len(r.plan)
    /\ \A q \in 1..Len(p.plan) : SameItem(p.plan[q], r.plan[q])

\* C23: the plan built from the JSON form of a returned plan equals that
\* plan: the same date and summary and, item by item, the same time, kind,
\* priority and payload of the same class.
C23_RoundTrip == parsed_plan.built => SamePlan(parsed_plan, final_plan)

\* A plan with an event that carries a UTC offset, a task with its priority
\* and a recommendation without impact_time has made the round trip.
C23_Witness ==
    /\ parsed_plan.built
    /\ \E q \in 1..Len(parsed_plan.plan) :
          /\ parsed_plan.plan[q].item_type = "event"
          /\ parsed_plan.plan[q].details = PlanEventB
    /\ \E q \in 1..Len(parsed_plan.plan) :
          /\ parsed_plan.plan[q].item_type = "task"
          /\ parsed_plan.plan[q].priority = "urgent"
    /\ \E q \in 1..Len(parsed_plan.plan) :
          /\ parsed_plan.plan[q].item_type = "recommendation"
          /\ IsNone(parsed_plan.plan[q].details.impact_time)

(***************************************************************************)
(* run_planner and its agents.                                             *)
(***************************************************************************)
\* The agents that raised or whose fetch failed.
FailedAgents ==
    { a \in {"calendar", "email", "context"} :
        upstream[a] \in {"raises", "error", "undecodable"} }

\* C25: when target_date_str is a date and one of the three agents fails
\* (raises, or its fetch fails), run_planner still returns the plan of
\* combine_agent_outputs, with no item counted for the failed input.
C25_PlanDespiteFailedAgent ==
    (rpc = "returned" /\ target_date_str.iso /\ Cardinality(FailedAgents) = 1) =>
        /\ returned = "plan"
        /\ final_plan.built
        /\ "calendar" \in FailedAgents => final_plan.summary.events = 0
        /\ "email" \in FailedAgents => final_plan.summary.tasks = 0
        /\ "context" \in FailedAgents => final_plan.summary.recommendations = 0

\* C30: combine_agent_outputs is given None for the schedule summary when
\* the calendar fetch failed (the tool reported an error or its output could
\* not be decoded), and a summary with no events only when the fetch
\* succeeded and found no events.
C30_AbsentNotEmpty ==
    rpc = "combining" =>
        /\ upstream.calendar \in {"error", "undecodable"} => IsNone(calendar_summary)
        /\ (~IsNone(calendar_summary) /\ calendar_summary.events = <<>>) =>
              (upstream.calendar = "events" /\ input = <<>>)

====
